---- MODULE Spec2Model ----
(***************************************************************************)
(* A model of nuxt-og-image's build-time module setup (src/module.ts, in   *)
(* the two variants the repository holds) and of the lazy engine           *)
(* accessors of runtime/core/renderers/satori/instances.ts.                *)
(***************************************************************************)
EXTENDS Integers, Sequences, FiniteSets, TLC

\* ------------------------------------------------------------------ bounds

\* number of accessor calls (useResvg / useSatori / useSharp) in one process
MaxCalls == 3

\* length of the configured font list
MaxFonts == 2

\* most invocations of the components:extend hook in one run
MaxExtends == 2

\* ---------------------------------------------------------------- engines

VARIABLES
  instance,     \* resvgInstance / satoriInstance / sharpInstance: the .instance field
  moduleState,  \* the module map entry of each '#nuxt-og-image/bindings/<kind>'
  evals,        \* how often each binding module has been evaluated
  loads,        \* how many loads of each binding module were started
  loadFailures, \* how many loads of each binding module failed
  wasm,         \* state of the binding's initWasmPromise
  pc,           \* position of each accessor call
  kindOf,       \* the accessor each call is a call of
  ret,          \* what each call returned
  cold          \* whether the call found no cached instance and imported

engineVars == <<instance, moduleState, evals, loads, loadFailures, wasm, pc, kindOf, ret, cold>>

Kinds == {"resvg", "satori", "sharp"}

\* the bindings whose default export carries an initWasmPromise
WasmKinds == {"resvg", "satori"}

Calls == 1..MaxCalls

\* instance: undefined
NoInstance == [kind |-> "undefined", eval |-> 0]

\* BindingDefault gone wrong: every import hands out a copy of the binding
BindingDefaultCopy(c, k) == [kind |-> k, eval |-> evals[k] + c]

\* .then(m => m.default): the default export of the evaluated binding module
BindingDefault(c, k) == [kind |-> k, eval |-> evals[k]]

\* lines 8-10: no instance is cached when the module is loaded
EnginesStart ==
  /\ instance = [k \in Kinds |-> NoInstance]
  /\ moduleState = [k \in Kinds |-> "unloaded"]
  /\ evals = [k \in Kinds |-> 0]
  /\ loads = [k \in Kinds |-> 0]
  /\ loadFailures = [k \in Kinds |-> 0]
  /\ wasm = [k \in Kinds |-> "none"]
  /\ pc = [c \in Calls |-> "idle"]
  /\ kindOf = [c \in Calls |-> "none"]
  /\ ret = [c \in Calls |-> NoInstance]
  /\ cold = [c \in Calls |-> FALSE]

\* AfterAssign gone wrong: no accessor awaits initWasmPromise
AfterAssignNoAwait(k) == "returned"

\* what a call does once the instance is assigned: useSharp returns it,
\* useResvg and useSatori first await instance.initWasmPromise
AfterAssign(k) == IF k \in WasmKinds THEN "awaitWasm" ELSE "returned"

\* A call of an accessor runs up to its first await.
\* `x.instance = x.instance || await import(...)`: a cached instance is kept
\* and the call goes on to the await of line 14 (useSharp returns); with no
\* instance cached the call starts an import and suspends.
useCall(c, k) ==
  /\ pc[c] = "idle"
  /\ kindOf' = [kindOf EXCEPT ![c] = k]
  /\ IF instance[k] # NoInstance
       THEN /\ pc' = [pc EXCEPT ![c] = AfterAssign(k)]
            /\ ret' = [ret EXCEPT ![c] = IF k \in WasmKinds THEN ret[c] ELSE instance[k]]
            /\ UNCHANGED <<moduleState, loads, cold>>
       ELSE /\ pc' = [pc EXCEPT ![c] = "importing"]
            /\ cold' = [cold EXCEPT ![c] = TRUE]
            \* import(): the module map starts one load per module; an import
            \* of a module that is loading or loaded joins it
            /\ IF moduleState[k] = "unloaded"
                 THEN /\ moduleState' = [moduleState EXCEPT ![k] = "loading"]
                      /\ loads' = [loads EXCEPT ![k] = @ + 1]
                 ELSE UNCHANGED <<moduleState, loads>>
            /\ UNCHANGED ret
  /\ UNCHANGED <<instance, evals, loadFailures, wasm>>

\* The binding module is fetched and evaluated: its default export exists
\* from now on, and (resvg, satori) its initWasmPromise is pending.
LoadSucceeds(k) ==
  /\ moduleState[k] = "loading"
  /\ moduleState' = [moduleState EXCEPT ![k] = "loaded"]
  /\ evals' = [evals EXCEPT ![k] = @ + 1]
  /\ wasm' = [wasm EXCEPT ![k] = IF k \in WasmKinds THEN "pending" ELSE "none"]
  /\ UNCHANGED <<instance, loads, loadFailures, pc, kindOf, ret, cold>>

\* The binding module fails to load: every import waiting for it rejects, the
\* await of line 13 throws before the assignment, and the accessor call fails.
LoadFails(k) ==
  /\ moduleState[k] = "loading"
  /\ moduleState' = [moduleState EXCEPT ![k] = "unloaded"]
  /\ loadFailures' = [loadFailures EXCEPT ![k] = @ + 1]
  /\ pc' = [c \in Calls |-> IF pc[c] = "importing" /\ kindOf[c] = k THEN "failed" ELSE pc[c]]
  /\ UNCHANGED <<instance, evals, loads, wasm, kindOf, ret, cold>>

\* The import of a call resolves: the default export is assigned to
\* x.instance (line 13, 19, 25).
ImportResolved(c) ==
  /\ pc[c] = "importing"
  /\ moduleState[kindOf[c]] = "loaded"
  /\ instance' = [instance EXCEPT ![kindOf[c]] = BindingDefault(c, kindOf[c])]
  /\ pc' = [pc EXCEPT ![c] = AfterAssign(kindOf[c])]
  /\ ret' = [ret EXCEPT ![c] = IF kindOf[c] \in WasmKinds THEN ret[c] ELSE instance'[kindOf[c]]]
  /\ UNCHANGED <<moduleState, evals, loads, loadFailures, wasm, kindOf, cold>>

\* the binding's WASM initialization finishes
WasmResolves(k) ==
  /\ wasm[k] = "pending"
  /\ wasm' = [wasm EXCEPT ![k] = "resolved"]
  /\ UNCHANGED <<instance, moduleState, evals, loads, loadFailures, pc, kindOf, ret, cold>>

\* the binding's WASM initialization fails
WasmRejects(k) ==
  /\ wasm[k] = "pending"
  /\ wasm' = [wasm EXCEPT ![k] = "rejected"]
  /\ UNCHANGED <<instance, moduleState, evals, loads, loadFailures, pc, kindOf, ret, cold>>

\* `await x.instance!.initWasmPromise` ends and the call returns
\* x.instance!.Resvg / .satori (lines 14-15, 20-21)
WasmAwaited(c) ==
  /\ pc[c] = "awaitWasm"
  /\ wasm[kindOf[c]] = "resolved"
  /\ pc' = [pc EXCEPT ![c] = "returned"]
  /\ ret' = [ret EXCEPT ![c] = instance[kindOf[c]]]
  /\ UNCHANGED <<instance, moduleState, evals, loads, loadFailures, wasm, kindOf, cold>>

\* `await x.instance!.initWasmPromise` throws: the call fails
WasmAwaitThrows(c) ==
  /\ pc[c] = "awaitWasm"
  /\ wasm[kindOf[c]] = "rejected"
  /\ pc' = [pc EXCEPT ![c] = "failed"]
  /\ UNCHANGED <<instance, moduleState, evals, loads, loadFailures, wasm, kindOf, ret, cold>>

\* ------------------------------------------------------------ JS values

Undefined == [t |-> "undefined"]
Str(s) == [t |-> "string", v |-> s]
Num(n) == [t |-> "number", v |-> n]
Bool(b) == [t |-> "boolean", v |-> b]

\* `!x` is false: neither undefined nor the empty string
Truthy(x) == x # Undefined /\ x # Str(<<>>)

\* String.prototype.startsWith
StartsWith(s, p) == Len(s) >= Len(p) /\ SubSeq(s, 1, Len(p)) = p

\* String.prototype.includes
Includes(s, p) == \E i \in 1..(Len(s) + 1) : StartsWith(SubSeq(s, i, Len(s)), p)

\* String.prototype.indexOf, 1-based, 0 when `ch` does not occur
RECURSIVE IndexFrom(_, _, _)
IndexFrom(s, ch, i) ==
  IF i > Len(s) THEN 0
  ELSE IF s[i] = ch THEN i
  ELSE IndexFrom(s, ch, i + 1)

\* String.prototype.split on a one-character separator
RECURSIVE Split(_, _)
Split(s, ch) ==
  LET i == IndexFrom(s, ch, 1)
  IN IF i = 0 THEN <<s>>
     ELSE <<SubSeq(s, 1, i - 1)>> \o Split(SubSeq(s, i + 1, Len(s)), ch)

\* `const [a, b] = parts`: a missing element is undefined
Element(parts, i) == IF i <= Len(parts) THEN Str(parts[i]) ELSE Undefined

\* defu(a, b): the leftmost object's defined values win, b fills the rest
Defu(a, b) == [e \in DOMAIN a \cup DOMAIN b |-> IF e \in DOMAIN a THEN a[e] ELSE b[e]]

\* ------------------------------------------------------------ module setup

VARIABLES
  env,            \* the build: variant of the module file, package version, nuxt
                  \* options, nitro preset and its compatibility, dependency probes
  userConfig,     \* the module options as setup receives them
  config,         \* the module options, as setup rewrites them
  baseCacheKey,   \* the `baseCacheKey` the modules:done hook closes over
  logs,           \* what the logger printed
  fontWarnings,   \* the fonts a skipped-font warning was logged for, in order
  ensured,        \* dependencies setup asked to install
  serverHandlers, \* routes registered with addServerHandler
  prerenderRoutes,\* nuxt.options.nitro.prerender.routes
  runtimeConfig,  \* nuxt.options.runtimeConfig['nuxt-og-image']
  spc,            \* how far the module has come
  registered,     \* what setup registered with nuxt besides the server handlers:
                  \* <<kind, name>> of every plugin, import, component, hook, ...
  ogImageComponents, \* ogImageComponentCtx.components
  files,          \* the file system: what is at each component's filePath
  scanned,        \* the components nuxt passed to the latest components:extend
  islands,        \* the components the hook turned into server islands
  extendCount     \* how often the components:extend hook has run

componentVars == <<ogImageComponents, files, scanned, islands, extendCount>>

setupVars == <<env, userConfig, config, baseCacheKey, logs, fontWarnings, ensured,
               serverHandlers, prerenderRoutes, runtimeConfig, spc, registered,
               componentVars>>

Phases == {"runtime", "dev", "prerender"}
Engines == {"chromium", "sharp"}

\* a CompatibilityConfig with nothing set
NoCompatibility == [e \in {} |-> FALSE]

\* { <phase>: { <engine>: value } } for every phase in `phases`
Compat(phases, engine, value) == [e \in phases \X {engine} |-> value]

IsString(f) == f.t = "string"

Inter == <<"I", "n", "t", "e", "r">>
Colon == ":"

\* ['Inter:400', 'Inter:700']
DefaultFonts == << Str(Inter \o <<Colon, "4", "0", "0">>), Str(Inter \o <<Colon, "7", "0", "0">>) >>

\* ---- src/module.ts

\* config.defaults.extension after line 171
DefaultExtension(cfg, e) ==
  IF cfg.extension # "undefined" THEN cfg.extension
  ELSE IF e.hasSharpDependency /\ e.targetCompatibility.sharp THEN "jpg" ELSE "png"

hasConfiguredJpegs(cfg) == cfg.extension \in {"jpeg", "jpg"}

\* config.compatibility after lines 172-195
SharpCompatibility(cfg, e) ==
  IF hasConfiguredJpegs(cfg) /\ cfg.renderer # "chromium"
    THEN IF e.hasSharpDependency /\ ~e.targetCompatibility.sharp
           THEN Defu(Compat({"runtime"}, "sharp", FALSE), cfg.compatibility)
           ELSE cfg.compatibility
    ELSE IF ~e.hasSharpDependency
           THEN Defu(Compat(Phases, "sharp", FALSE), cfg.compatibility)
           ELSE cfg.compatibility

\* what lines 172-187 log
SharpLogs(cfg, e) ==
  IF hasConfiguredJpegs(cfg) /\ cfg.renderer # "chromium"
    THEN IF e.hasSharpDependency /\ ~e.targetCompatibility.sharp
           THEN {[level |-> "warn", msg |-> "Rendering JPEGs requires sharp which does not work with preset"]}
           ELSE IF ~e.hasSharpDependency
                  THEN {[level |-> "warn", msg |-> "JPEG requires the sharp dependency which is missing, installing it"],
                        [level |-> "warn", msg |-> "Support for sharp is limited"]}
                  ELSE {}
    ELSE {}

\* ensureDependencies(['sharp']) of line 184, ensureChromium of line 202
Ensured(cfg, e) ==
  (IF hasConfiguredJpegs(cfg) /\ cfg.renderer # "chromium"
      /\ ~(e.hasSharpDependency /\ ~e.targetCompatibility.sharp) /\ ~e.hasSharpDependency
     THEN {"sharp"} ELSE {})
  \cup
  (IF ~e.hasChromeLocally /\ ~e.hasPlaywrightDependency /\ e.mode = "generate"
     THEN {"chromium"} ELSE {})

\* ChromiumCompatibility gone wrong: without Chrome and playwright the
\* compatibility is left as it is
ChromiumCompatibilityNotDisabled(compat, e) ==
  IF ~e.hasChromeLocally /\ ~e.hasPlaywrightDependency
    THEN compat
  ELSE IF e.hasChromeLocally
    THEN Defu(Defu(Compat({"runtime"}, "chromium", FALSE),
                   Compat({"dev", "prerender"}, "chromium", TRUE)), compat)
  ELSE IF e.hasPlaywrightDependency /\ e.targetCompatibility.chromium
    THEN Defu(Compat(Phases, "chromium", TRUE), compat)
  ELSE compat

\* ChromiumCompatibility gone wrong: playwright enables chromium whatever
\* the target supports
ChromiumCompatibilityAnyTarget(compat, e) ==
  IF ~e.hasChromeLocally /\ ~e.hasPlaywrightDependency
    THEN Defu(Compat(Phases, "chromium", FALSE), compat)
  ELSE IF e.hasChromeLocally
    THEN Defu(Defu(Compat({"runtime"}, "chromium", FALSE),
                   Compat({"dev", "prerender"}, "chromium", TRUE)), compat)
  ELSE Defu(Compat(Phases, "chromium", TRUE), compat)

\* config.compatibility after lines 197-228
ChromiumCompatibility(compat, e) ==
  IF ~e.hasChromeLocally /\ ~e.hasPlaywrightDependency
    THEN Defu(Compat(Phases, "chromium", FALSE), compat)
  ELSE IF e.hasChromeLocally
    THEN Defu(Defu(Compat({"runtime"}, "chromium", FALSE),
                   Compat({"dev", "prerender"}, "chromium", TRUE)), compat)
  ELSE IF e.hasPlaywrightDependency /\ e.targetCompatibility.chromium
    THEN Defu(Compat(Phases, "chromium", TRUE), compat)
  ELSE compat

\* what lines 200-204 log
ChromiumLogs(e) ==
  IF ~e.hasChromeLocally /\ ~e.hasPlaywrightDependency /\ e.mode = "build"
    THEN {[level |-> "info", msg |-> "You are missing a chromium install"]}
    ELSE {}

\* `if (!config.fonts.length) config.fonts = ['Inter:400', 'Inter:700']`
WithDefaultFonts(fonts) == IF Len(fonts) = 0 THEN DefaultFonts ELSE fonts

IsInterShorthand(f) == IsString(f) /\ StartsWith(f.v, Inter \o <<Colon>>)

\* lines 252-255: the font is skipped with a warning
StackblitzSkips(f) ==
  /\ ~IsInterShorthand(f)
  /\ (IsString(f) \/ (~Truthy(f.path) /\ ~Truthy(f.key)))

\* StackblitzFont gone wrong: the bundled font gets a path next to its key
StackblitzFontWithPath(f) ==
  IF IsString(f) /\ StartsWith(f.v, Inter \o <<Colon>>)
    THEN [t |-> "object", name |-> Str(Inter), weight |-> Element(Split(f.v, Colon), 2),
          path |-> Str(<<"inter-latin-ext-">> \o Element(Split(f.v, Colon), 2).v \o <<"-normal.woff">>),
          key |-> Str(<<"nuxt-og-image:fonts:inter-latin-ext-">> \o Element(Split(f.v, Colon), 2).v \o <<"-normal.woff">>)]
    ELSE f

\* lines 243-251 and 256: what the map callback returns for a font it keeps
StackblitzFont(f) ==
  IF IsInterShorthand(f)
    THEN LET weight == Element(Split(f.v, Colon), 2)
         IN [t |-> "object", name |-> Str(Inter), weight |-> weight, path |-> Undefined,
             key |-> Str(<<"nuxt-og-image:fonts:inter-latin-ext-">> \o weight.v \o <<"-normal.woff">>)]
    ELSE f

StackblitzKeeps(f) == ~StackblitzSkips(f)

\* config.fonts after lines 236-262
SetupFonts(fonts, e) ==
  IF e.preset = "stackblitz"
    THEN LET kept == SelectSeq(WithDefaultFonts(fonts), StackblitzKeeps)
         IN [i \in 1..Len(kept) |-> StackblitzFont(kept[i])]
    ELSE WithDefaultFonts(fonts)

\* the fonts line 253 warns about
SetupFontWarnings(fonts, e) ==
  IF e.preset = "stackblitz"
    THEN SelectSeq(WithDefaultFonts(fonts), StackblitzSkips)
    ELSE <<>>

\* ---- unnamed/part_000

\* config.defaults.extension after lines 166-173
Part000Extension(cfg, e) ==
  IF ~e.targetCompatibility.sharp /\ cfg.renderer # "chromium" THEN "png"
  ELSE IF cfg.extension # "undefined" THEN cfg.extension
  ELSE "jpg"

\* what lines 168-178 log
Part000Logs(cfg, e) ==
  (IF ~e.targetCompatibility.sharp /\ cfg.renderer # "chromium" /\ hasConfiguredJpegs(cfg)
     THEN {[level |-> "warn", msg |-> "The sharp runtime is not available for this target, using png"]}
     ELSE {})
  \cup
  (IF cfg.runtimeChromium /\ ~e.targetCompatibility.chromium
     THEN {[level |-> "warn", msg |-> "The Chromium runtime is not available for this target"]}
     ELSE {})

\* config.runtimeChromium after lines 175-178
Part000RuntimeChromium(cfg, e) == cfg.runtimeChromium /\ e.targetCompatibility.chromium

\* line 191: the font is skipped with a warning
Part000Skips(f) == IsString(f) \/ ~Truthy(f.path)

Part000Keeps(f) == ~Part000Skips(f)

\* config.fonts after lines 188-202
Part000Fonts(fonts, e) ==
  IF e.preset # "stackblitz"
    THEN SelectSeq(fonts, Part000Keeps)
    ELSE WithDefaultFonts(fonts)

\* the fonts line 192 warns about
Part000FontWarnings(fonts, e) ==
  IF e.preset # "stackblitz" THEN SelectSeq(fonts, Part000Skips) ELSE <<>>

\* ---- both variants

\* BaseCacheKey gone wrong: `cacheEnabled` is forgotten
BaseCacheKeyAlways(storage, version) ==
  IF (IF storage.t = "boolean" THEN "default" ELSE storage.driver) = "default"
    THEN Str(<<"/cache/nuxt-og-image@", version>>)
    ELSE Str(<<"/nuxt-og-image@", version>>)

\* BaseCacheKey gone wrong: the key does not carry the version
BaseCacheKeyUnversioned(storage, version) ==
  IF storage = Bool(FALSE) THEN Bool(FALSE)
  ELSE IF (IF storage.t = "boolean" THEN "default" ELSE storage.driver) = "default"
    THEN Str(<<"/cache/nuxt-og-image">>)
    ELSE Str(<<"/nuxt-og-image">>)

\* baseCacheKey, lines 414-418
BaseCacheKey(storage, version) ==
  LET cacheEnabled == storage # Undefined /\ storage # Bool(FALSE)
      runtimeCacheStorage == IF storage.t = "boolean" THEN "default" ELSE storage.driver
  IN IF ~cacheEnabled THEN Bool(FALSE)
     ELSE IF runtimeCacheStorage = "default"
       THEN Str(<<"/cache/nuxt-og-image@", version>>)
       ELSE Str(<<"/nuxt-og-image@", version>>)

\* ServerHandlers gone wrong: the debug route follows the debug flag alone
ServerHandlersByDebugFlag(cfg, e) ==
  {"/__og-image__/font/**", "/__og-image__/image/**"}
  \cup (IF cfg.debug THEN {"/__og-image__/debug.json"} ELSE {})

\* the routes lines 266-282 register
ServerHandlers(cfg, e) ==
  {"/__og-image__/font/**", "/__og-image__/image/**"}
  \cup (IF cfg.debug \/ e.mode = "dev" THEN {"/__og-image__/debug.json"} ELSE {})

\* NormalisedFont gone wrong: the parts of the shorthand are swapped
NormalisedFontSwapped(f) ==
  IF IsString(f)
    THEN [t |-> "object", name |-> Element(Split(f.v, Colon), 2),
          weight |-> Element(Split(f.v, Colon), 1), path |-> Undefined, key |-> Undefined]
    ELSE f

\* the map callback of normalisedFonts, lines 422-432
NormalisedFont(f) ==
  IF IsString(f)
    THEN [t |-> "object", name |-> Element(Split(f.v, Colon), 1),
          weight |-> Element(Split(f.v, Colon), 2), path |-> Undefined, key |-> Undefined]
    ELSE f

\* normalisedFonts gone wrong: a font equal to an earlier one is left out
normalisedFontsDeduplicated(fonts) ==
  LET first == SelectSeq([i \in 1..Len(fonts) |-> [n |-> i, f |-> fonts[i]]],
                         LAMBDA x : \A j \in 1..(x.n - 1) : fonts[j] # x.f)
  IN [i \in 1..Len(first) |-> NormalisedFont(first[i].f)]

\* normalisedFonts, lines 422-432
normalisedFonts(fonts) == [i \in 1..Len(fonts) |-> NormalisedFont(fonts[i])]

\* NeedsFontRoute gone wrong: every font gets a route
NeedsFontRouteAlways(f) == TRUE

\* the filter of line 438 (module.ts) and of line 376 (part_000)
NeedsFontRoute(f) ==
  IF env.variant = "module.ts" THEN ~Truthy(f.path) /\ ~Truthy(f.key) ELSE ~Truthy(f.path)

\* `/__og-image__/font/${name}/${weight}.ttf`
FontRoute(f) == <<"/__og-image__/font/", f.name, "/", f.weight, ".ttf">>

NotPublished == [published |-> FALSE]

\* ReturnsEarly gone wrong: a disabled SSR does not stop setup
ReturnsEarlyWhenDisabled(cfg, e) == cfg.enabled = FALSE

\* the two early returns of lines 153-160
ReturnsEarly(cfg, e) == cfg.enabled = FALSE \/ (cfg.enabled /\ ~e.ssr)

\* what lines 154 and 158 log
EarlyLogs(cfg, e) ==
  IF cfg.enabled = FALSE
    THEN {[level |-> "debug", msg |-> "The module is disabled, skipping setup."]}
    ELSE {[level |-> "warn", msg |-> "Nuxt OG Image is enabled but SSR is disabled."]}

\* what lines 230-488 of module.ts register with nuxt and nitro, the server
\* handlers excepted
Registrations(cfg, e) ==
  {<<"module", "nuxt-site-config">>}
  \cup (IF e.hasNuxtContent THEN {<<"serverPlugin", "nuxt-content">>} ELSE {})
  \cup (IF e.preset = "stackblitz" THEN {<<"hook", "nitro:config">>} ELSE {})
  \cup {<<"import", n>> : n \in {"defineOgImage", "defineOgImageComponent", "defineOgImageScreenshot"}}
  \cup {<<"componentsDir", "Templates/Community">>}
  \cup {<<"component", n>> : n \in {"OgImage", "OgImageScreenshot"}}
  \cup {<<"plugin", n>> : n \in {"route-rule-og-image.server", "og-image-canonical-urls.server"}}
  \cup {<<"hook", n>> : n \in {"components:extend", "tailwindcss:config", "unocss:config", "modules:done"}}
  \cup {<<"template", "nuxt-og-image/components.mjs">>}
  \cup {<<"virtual", n>> : n \in {"#nuxt-og-image/component-names.mjs", "#nuxt-og-image/unocss-config.mjs"}}
  \cup {<<"types", "nuxt-og-image">>}
  \cup (IF e.mode = "dev" THEN {<<"handler", "dev">>, <<"handler", "devtools">>}
        ELSE IF e.mode = "generate" THEN {<<"handler", "generate">>}
        ELSE {<<"handler", "build">>})
  \cup (IF e.mode = "build" THEN {<<"serverPlugin", "prerender">>} ELSE {})
  \cup {<<"handler", "prerender">>}

\* what lines 182-425 of part_000 register; no prerender route is configured
\* and links are not crawled, so only a generate adds the prerender plugin
Part000Registrations(cfg, e) ==
  {<<"module", "nuxt-site-config">>}
  \cup (IF e.hasNuxtContent THEN {<<"serverPlugin", "nuxt-content">>} ELSE {})
  \cup {<<"import", n>> : n \in {"defineOgImage", "defineOgImageComponent", "defineOgImageScreenshot"}}
  \cup {<<"componentsDir", "Templates/Community">>}
  \cup {<<"component", n>> : n \in {"OgImage", "OgImageScreenshot"}}
  \cup {<<"plugin", n>> : n \in {"route-rule-og-image.server", "og-image-canonical-urls.server"}}
  \cup {<<"hook", n>> : n \in {"components:extend", "tailwindcss:config", "unocss:config", "modules:done"}}
  \cup {<<"template", "og-image-component-names.mjs">>}
  \cup {<<"virtual", n>> : n \in {"#nuxt-og-image/component-names.mjs", "#nuxt-og-image/unocss-config.mjs"}}
  \cup {<<"types", "nuxt-og-image">>}
  \cup (IF e.mode = "dev" THEN {<<"handler", "dev">>, <<"handler", "devtools">>}
        ELSE IF e.mode = "generate" THEN {<<"handler", "generate">>}
        ELSE {<<"handler", "build">>})
  \cup (IF e.mode = "generate" THEN {<<"serverPlugin", "prerender">>} ELSE {})
  \cup {<<"handler", "prerender">>}

\* async setup(config, nuxt)
Setup ==
  /\ spc = "start"
  /\ IF ReturnsEarly(userConfig, env)
       THEN /\ spc' = "skipped"
            /\ logs' = EarlyLogs(userConfig, env)
            /\ UNCHANGED <<config, baseCacheKey, fontWarnings, ensured, serverHandlers, registered>>
     ELSE /\ spc' = "setupDone"
          /\ IF env.variant = "module.ts"
               THEN /\ config' = [config EXCEPT
                         !.extension = DefaultExtension(userConfig, env),
                         !.compatibility = ChromiumCompatibility(SharpCompatibility(userConfig, env), env),
                         !.fonts = SetupFonts(userConfig.fonts, env)]
                    /\ logs' = SharpLogs(userConfig, env) \cup ChromiumLogs(env)
                    /\ ensured' = Ensured(userConfig, env)
                    /\ fontWarnings' = SetupFontWarnings(userConfig.fonts, env)
                    /\ registered' = Registrations(userConfig, env)
               ELSE /\ config' = [config EXCEPT
                         !.extension = Part000Extension(userConfig, env),
                         !.runtimeChromium = Part000RuntimeChromium(userConfig, env),
                         !.fonts = Part000Fonts(userConfig.fonts, env)]
                    /\ logs' = Part000Logs(userConfig, env)
                    /\ ensured' = {}
                    /\ fontWarnings' = Part000FontWarnings(userConfig.fonts, env)
                    /\ registered' = Part000Registrations(userConfig, env)
          /\ serverHandlers' = ServerHandlers(userConfig, env)
          /\ baseCacheKey' = BaseCacheKey(userConfig.runtimeCacheStorage, env.version)
  /\ UNCHANGED <<env, userConfig, prerenderRoutes, runtimeConfig, componentVars>>

\* the modules:done hook setup registered
ModulesDone ==
  /\ spc = "setupDone"
  /\ spc' = "modulesDone"
  /\ prerenderRoutes' =
       IF env.mode = "build"
         THEN LET remote == SelectSeq(normalisedFonts(config.fonts), NeedsFontRoute)
              IN prerenderRoutes \o [i \in 1..Len(remote) |-> FontRoute(remote[i])]
         ELSE prerenderRoutes
  /\ runtimeConfig' = [published |-> TRUE, version |-> env.version, defaults |-> [extension |-> config.extension,
                         renderer |-> config.renderer], debug |-> config.debug,
                       baseCacheKey |-> baseCacheKey, fonts |-> normalisedFonts(config.fonts)]
  /\ UNCHANGED <<env, userConfig, config, baseCacheKey, logs, fontWarnings, ensured, serverHandlers,
                 registered, componentVars>>

\* ------------------------------------------------- the components:extend hook

\* file names and component names are sequences of their parts
Slash == "/"
AppDir == <<Slash, "app">>
ModuleDir == <<Slash, "node_modules", Slash, "nuxt-og-image", Slash, "dist">>

\* resolve('./runtime/components/Templates'), line 330
TemplatesDir == ModuleDir \o <<Slash, "runtime", Slash, "components", Slash, "Templates">>

\* resolve('./runtime/components/Templates/Community'), line 339
CommunityDir == TemplatesDir \o <<Slash, "Community">>

\* the default of componentDirs, line 109
DefaultComponentDirs == << <<"OgImage">>, <<"OgImage", "Template">> >>

\* a component as nuxt scans it
Component(pascal, kebab, short, dir) ==
  [pascalName |-> pascal, kebabName |-> kebab, shortPath |-> short, filePath |-> dir \o <<Slash>> \o short]

\* the components of the application and of the module, in scan order: one
\* with the OgImage prefix, one in an OgImage directory (templates only while
\* componentDirs names OgImage), and a community template of the module
ScannedComponents ==
  << Component(<<"OgImage", "Banner">>, <<"og-image", "-banner">>, <<"components", Slash, "OgImageBanner.vue">>, AppDir),
     Component(<<"Simple">>, <<"simple">>, <<"components", Slash, "OgImage", Slash, "Simple.vue">>, AppDir),
     Component(<<"NuxtSeo">>, <<"nuxt-seo">>, <<"NuxtSeo.vue">>, CommunityDir) >>

FilePaths == {ScannedComponents[i].filePath : i \in 1..Len(ScannedComponents)}

\* a component file: its lines, the credits line first when it has one
WithCredits == << <<" * @credits ", "nuxt">>, <<"<template>2">> >>
WithoutCredits == << <<"<template>1">> >>
FileContents == {WithoutCredits, WithCredits}

\* what is at a path: nothing, or a file
NoFile == [exists |-> FALSE, content |-> <<>>]
File(content) == [exists |-> TRUE, content |-> content]
FileStates == {NoFile} \cup {File(c) : c \in FileContents}

\* hash(componentFile), line 345: equal for equal contents only
Hash(content) == <<"hash">> \o content

\* line 343: the rest of the first line that starts with ' * @credits'
Credits(content) ==
  LET found == SelectSeq(content, LAMBDA line : line[1] = " * @credits ")
  IN IF found = <<>> THEN Undefined ELSE Str(Tail(found[1]))

\* lines 324-331: the component is in a configured directory or a template
\* of the module
ValidComponent(c) ==
  \/ \E d \in 1..Len(config.componentDirs) :
       LET dir == config.componentDirs[d]
       IN \/ StartsWith(c.pascalName, dir)
          \/ StartsWith(c.kebabName, dir)
          \/ Includes(c.shortPath, <<Slash>> \o dir \o <<Slash>>)
  \/ Includes(c.filePath, TemplatesDir)

\* line 333
ValidAndExists(c) == ValidComponent(c) /\ files[c.filePath].exists

\* lines 338-350: the entry pushed for a component
ComponentEntry(c) ==
  [hash |-> Hash(files[c.filePath].content),
   pascalName |-> c.pascalName,
   kebabName |-> c.kebabName,
   path |-> IF env.mode = "dev" THEN Str(c.filePath) ELSE Undefined,
   category |-> IF Includes(c.filePath, CommunityDir) THEN "community" ELSE "app",
   credits |-> Credits(files[c.filePath].content)]

\* ResetComponents gone wrong: the entries of the last invocation stay
ResetComponentsKeeps(old) == old

\* line 320
ResetComponents(old) == <<>>

\* the components:extend hook, called by nuxt with the components it scanned
ComponentsExtend(components) ==
  /\ spc \in {"setupDone", "modulesDone"}
  /\ extendCount < MaxExtends
  /\ extendCount' = extendCount + 1
  /\ scanned' = components
  /\ LET validComponents == SelectSeq(components, ValidAndExists)
     IN /\ ogImageComponents' =
             ResetComponents(ogImageComponents)
               \o [i \in 1..Len(validComponents) |-> ComponentEntry(validComponents[i])]
        /\ islands' = islands \cup {validComponents[i].pascalName : i \in 1..Len(validComponents)}
  /\ registered' = registered \cup {<<"hook", "nuxt-og-image:components">>}
  /\ UNCHANGED <<env, userConfig, config, baseCacheKey, logs, fontWarnings, ensured, serverHandlers,
                 prerenderRoutes, runtimeConfig, spc, files>>

\* a component file is written, edited or deleted
WriteFile(path, file) ==
  /\ files[path] # file
  /\ files' = [files EXCEPT ![path] = file]
  /\ UNCHANGED <<env, userConfig, config, baseCacheKey, logs, fontWarnings, ensured, serverHandlers,
                 prerenderRoutes, runtimeConfig, spc, registered, ogImageComponents, scanned, islands,
                 extendCount>>

\* the lists nuxt can pass: the scanned components, some of them left out
ComponentLists ==
  {SelectSeq(ScannedComponents, LAMBDA c : c.filePath \in paths) : paths \in SUBSET FilePaths}

NextComponents ==
  \/ Setup /\ UNCHANGED engineVars
  \/ ModulesDone /\ UNCHANGED engineVars
  \/ \E components \in ComponentLists : ComponentsExtend(components) /\ UNCHANGED engineVars
  \/ \E path \in FilePaths, file \in FileStates : WriteFile(path, file) /\ UNCHANGED engineVars

NextSetup ==
  \/ Setup /\ UNCHANGED engineVars
  \/ ModulesDone /\ UNCHANGED engineVars

\* ------------------------------------------------------------------ inputs

Variants == {"module.ts", "part_000"}
Modes == {"dev", "build", "generate"}
Presets == {"node-server", "stackblitz", "cloudflare-pages"}
Versions == {"3.0.0", "3.1.0"}
Extensions == {"png", "jpeg", "jpg"}
Renderers == {"satori", "chromium"}

\* the compatibility option as a user writes it: nothing, or one entry
UserCompatibilities ==
  {NoCompatibility} \cup
  {Compat({ph}, en, b) : <<ph, en, b>> \in Phases \X Engines \X BOOLEAN}

\* runtimeCacheStorage: a boolean or a storage-driver record
CacheStorages ==
  {Bool(TRUE), Bool(FALSE), [t |-> "object", driver |-> "redis"], [t |-> "object", driver |-> "default"]}

Lato == <<"L", "a", "t", "o">>
LocalPath == Str(<<"/", "f", ".", "t", "t", "f">>)
AssetKey == Str(<<"k">>)

\* an InputFontConfig: a shorthand string or a record
InputFonts ==
  { Str(Inter \o <<Colon, "4", "0", "0">>), Str(Lato \o <<Colon, "7", "0", "0">>), Str(Lato) }
  \cup [t : {"object"}, name : {Str(Lato)}, weight : {Num(400)},
        path : {Undefined, LocalPath}, key : {Undefined, AssetKey}]

FontLists == UNION {[1..n -> InputFonts] : n \in 0..MaxFonts}

AnyTarget == [sharp : BOOLEAN, chromium : BOOLEAN]

InitSetup(envs, configs) ==
  /\ env \in envs
  /\ userConfig \in configs
  /\ config = userConfig
  /\ baseCacheKey = Undefined
  /\ logs = {}
  /\ fontWarnings = <<>>
  /\ ensured = {}
  /\ serverHandlers = {}
  /\ prerenderRoutes = <<>>
  /\ runtimeConfig = NotPublished
  /\ spc = "start"
  /\ registered = {}
  /\ ogImageComponents = <<>>
  /\ files = [path \in FilePaths |-> File(WithoutCredits)]
  /\ scanned = <<>>
  /\ islands = {}
  /\ extendCount = 0

\* the module's defaults() on a node server, every dependency installed
DefaultEnvs ==
  [variant : {"module.ts"}, version : {"3.0.0"}, mode : {"build"}, ssr : {TRUE},
   preset : {"node-server"}, targetCompatibility : {[sharp |-> TRUE, chromium |-> TRUE]},
   hasSharpDependency : {TRUE}, hasChromeLocally : {TRUE}, hasPlaywrightDependency : {TRUE},
   hasNuxtContent : {FALSE}]

DefaultConfigs ==
  [enabled : {TRUE}, debug : {FALSE}, extension : {"undefined"}, renderer : {"satori"},
   fonts : {<<>>}, runtimeCacheStorage : {Bool(TRUE)}, compatibility : {NoCompatibility},
   runtimeChromium : {FALSE}, componentDirs : {DefaultComponentDirs}]

\* every target, probe result, extension, renderer and compatibility option
CompatEnvs ==
  [variant : Variants, version : {"3.0.0"}, mode : Modes, ssr : {TRUE},
   preset : {"node-server"}, targetCompatibility : AnyTarget,
   hasSharpDependency : BOOLEAN, hasChromeLocally : BOOLEAN, hasPlaywrightDependency : BOOLEAN,
   hasNuxtContent : {FALSE}]

CompatConfigs ==
  [enabled : {TRUE}, debug : {FALSE}, extension : {"undefined"} \cup Extensions, renderer : Renderers,
   fonts : {<<>>}, runtimeCacheStorage : {Bool(TRUE)}, compatibility : UserCompatibilities,
   runtimeChromium : BOOLEAN, componentDirs : {DefaultComponentDirs}]

\* every font list, preset, cache storage and version
FontEnvs ==
  [variant : Variants, version : Versions, mode : Modes, ssr : {TRUE},
   preset : Presets, targetCompatibility : {[sharp |-> TRUE, chromium |-> TRUE]},
   hasSharpDependency : {TRUE}, hasChromeLocally : {TRUE}, hasPlaywrightDependency : {TRUE},
   hasNuxtContent : {FALSE}]

FontConfigs ==
  [enabled : {TRUE}, debug : {FALSE}, extension : {"undefined"}, renderer : {"satori"},
   fonts : FontLists, runtimeCacheStorage : CacheStorages, compatibility : {NoCompatibility},
   runtimeChromium : {FALSE}, componentDirs : {DefaultComponentDirs}]

\* the module switched on and off, with and without SSR and debug
SwitchEnvs ==
  [variant : Variants, version : {"3.0.0"}, mode : Modes, ssr : BOOLEAN,
   preset : Presets, targetCompatibility : {[sharp |-> TRUE, chromium |-> TRUE]},
   hasSharpDependency : {TRUE}, hasChromeLocally : {TRUE}, hasPlaywrightDependency : {TRUE},
   hasNuxtContent : BOOLEAN]

SwitchConfigs ==
  [enabled : BOOLEAN, debug : BOOLEAN, extension : {"undefined"}, renderer : {"satori"},
   fonts : {<<>>}, runtimeCacheStorage : {Bool(TRUE)}, compatibility : {NoCompatibility},
   runtimeChromium : {FALSE}, componentDirs : {DefaultComponentDirs}]

\* the builds in which the components:extend hook is observed
ComponentEnvs ==
  [variant : {"module.ts"}, version : {"3.0.0"}, mode : Modes, ssr : {TRUE},
   preset : {"node-server"}, targetCompatibility : {[sharp |-> TRUE, chromium |-> TRUE]},
   hasSharpDependency : {TRUE}, hasChromeLocally : {TRUE}, hasPlaywrightDependency : {TRUE},
   hasNuxtContent : {FALSE}]

ComponentConfigs ==
  [enabled : {TRUE}, debug : {FALSE}, extension : {"undefined"}, renderer : {"satori"},
   fonts : {<<>>}, runtimeCacheStorage : {Bool(TRUE)}, compatibility : {NoCompatibility},
   runtimeChromium : {FALSE}, componentDirs : {DefaultComponentDirs, <<>>}]

NextEngines ==
  \/ \E c \in Calls, k \in Kinds : useCall(c, k) /\ UNCHANGED setupVars
  \/ \E k \in Kinds : LoadSucceeds(k) /\ UNCHANGED setupVars
  \/ \E k \in Kinds : LoadFails(k) /\ UNCHANGED setupVars
  \/ \E c \in Calls : ImportResolved(c) /\ UNCHANGED setupVars
  \/ \E k \in Kinds : WasmResolves(k) /\ UNCHANGED setupVars
  \/ \E k \in Kinds : WasmRejects(k) /\ UNCHANGED setupVars
  \/ \E c \in Calls : WasmAwaited(c) /\ UNCHANGED setupVars
  \/ \E c \in Calls : WasmAwaitThrows(c) /\ UNCHANGED setupVars

vars == <<engineVars, setupVars>>

\* the accessors, in a process of the default build
InitEngines == EnginesStart /\ InitSetup(DefaultEnvs, DefaultConfigs)

SpecEngines == InitEngines /\ [][NextEngines]_vars

\* setup and its hooks, over the compatibility inputs
InitCompat == EnginesStart /\ InitSetup(CompatEnvs, CompatConfigs)

SpecCompat == InitCompat /\ [][NextSetup]_vars

\* setup and its hooks, over the font and cache inputs
InitFonts == EnginesStart /\ InitSetup(FontEnvs, FontConfigs)

SpecFonts == InitFonts /\ [][NextSetup]_vars

\* setup and its hooks, over the enabled, ssr and debug options
InitSwitches == EnginesStart /\ InitSetup(SwitchEnvs, SwitchConfigs)

SpecSwitches == InitSwitches /\ [][NextSetup]_vars

\* setup, its hooks and the file system, over the component directories
InitComponents == EnginesStart /\ InitSetup(ComponentEnvs, ComponentConfigs)

SpecComponents == InitComponents /\ [][NextComponents]_vars

Init == EnginesStart /\ InitSetup(DefaultEnvs, DefaultConfigs)

Next == NextEngines \/ NextComponents

Spec == Init /\ [][Next]_vars

\* ------------------------------------------------------------------ claims

Returned(c, k) == pc[c] = "returned" /\ kindOf[c] = k

\* C1: for each engine kind, however many calls of its accessor run and
\* however they interleave, the binding is evaluated at most once, a load of
\* it is started again only after a load failed, and all the calls that
\* returned hold the same handle, the one cached in the instance field.
C1_SingleInitialization ==
  \A k \in Kinds :
    /\ evals[k] <= 1
    /\ loads[k] <= loadFailures[k] + 1
    /\ \A c \in Calls : Returned(c, k) => ret[c] = instance[k] /\ ret[c] # NoInstance
    /\ \A c1, c2 \in Calls : Returned(c1, k) /\ Returned(c2, k) => ret[c1] = ret[c2]

\* two calls that both started before the engine was cached have returned,
\* and so has a third that found it cached
C1_Witness ==
  \E k \in WasmKinds : \E c1, c2, c3 \in Calls :
    /\ c1 # c2
    /\ Returned(c1, k) /\ Returned(c2, k) /\ Returned(c3, k)
    /\ cold[c1] /\ cold[c2] /\ ~cold[c3]
    /\ evals[k] = 1

\* C2: whenever an accessor call fails, by a failed load of the binding or
\* by a rejected WASM initialization, no handle is cached for its engine.
C2_FailureCachesNothing ==
  [][\A c \in Calls :
       (pc[c] # "failed" /\ pc'[c] = "failed") => instance'[kindOf'[c]] = NoInstance]_vars

SetupRan == spc \in {"setupDone", "modulesDone"}

\* a compatibility entry that is true after setup and that the user did not set to true
WrittenAvailable(e) ==
  /\ e \in DOMAIN config.compatibility
  /\ config.compatibility[e]
  /\ ~(e \in DOMAIN userConfig.compatibility /\ userConfig.compatibility[e])

\* the preset table marks the engine of entry e as supported
TargetSupports(e) == env.targetCompatibility[e[2]]

\* C3 as claimed: whatever the probes find, no phase and engine is marked
\* available by setup when the preset table marks the engine unavailable.
C3_ProbesNeverWiden ==
  SetupRan =>
    /\ \A e \in Phases \X Engines : WrittenAvailable(e) => TargetSupports(e)
    /\ env.variant = "part_000" /\ config.runtimeChromium => env.targetCompatibility.chromium

\* C3 as amended: whatever the probes find, setup marks sharp available in no
\* phase and chromium available in the runtime phase only when the preset
\* table supports the engine; chromium in the dev and prerender phases is
\* also marked available when Chrome is installed locally.
C3_ProbesNeverWidenRuntime ==
  SetupRan =>
    /\ \A e \in Phases \X Engines :
         WrittenAvailable(e) =>
           \/ TargetSupports(e)
           \/ e[2] = "chromium" /\ e[1] \in {"dev", "prerender"} /\ env.hasChromeLocally
    /\ env.variant = "part_000" /\ config.runtimeChromium => env.targetCompatibility.chromium

\* every probe succeeds on a target that supports neither engine: setup marked
\* chromium available for dev, and not for the runtime
C3_Witness ==
  /\ spc = "setupDone"
  /\ env.variant = "module.ts"
  /\ env.hasSharpDependency /\ env.hasPlaywrightDependency /\ env.hasChromeLocally
  /\ ~env.targetCompatibility.sharp /\ ~env.targetCompatibility.chromium
  /\ userConfig.compatibility = NoCompatibility
  /\ config.compatibility[<<"dev", "chromium">>]
  /\ ~config.compatibility[<<"runtime", "chromium">>]

\* C4: with jpeg or jpg configured, a renderer other than chromium and a
\* target whose preset does not support sharp, setup runs to its end, the
\* default extension is png afterwards and a warning was logged.
C4_JpegDowngradedToPng ==
  /\ spc # "start"
  /\ hasConfiguredJpegs(userConfig) /\ userConfig.renderer # "chromium"
  /\ ~env.targetCompatibility.sharp
  => /\ SetupRan
     /\ config.extension = "png"
     /\ \E l \in logs : l.level = "warn"

\* C5: the published base cache key is false exactly when runtimeCacheStorage
\* is false; for true or a storage-driver record it is a non-empty string.
C5_CacheDisabledIffFalse ==
  spc = "modulesDone" =>
    /\ runtimeConfig.baseCacheKey = Bool(FALSE) <=> userConfig.runtimeCacheStorage = Bool(FALSE)
    /\ userConfig.runtimeCacheStorage # Bool(FALSE) =>
         /\ runtimeConfig.baseCacheKey.t = "string"
         /\ Len(runtimeConfig.baseCacheKey.v) > 0

C5_Witness ==
  /\ spc = "modulesDone"
  /\ userConfig.runtimeCacheStorage = Bool(FALSE)
  /\ runtimeConfig.baseCacheKey = Bool(FALSE)

\* C6: with caching enabled the published key is a storage root followed by
\* nuxt-og-image@<version>, and the key of the same storage configuration
\* under any other version is a different key.
C6_KeyNamespacedByVersion ==
  spc = "modulesDone" /\ userConfig.runtimeCacheStorage # Bool(FALSE) =>
    LET key == runtimeConfig.baseCacheKey.v
    IN /\ Len(key) = 2
       /\ key[1] \in {"/cache/nuxt-og-image@", "/nuxt-og-image@"}
       /\ key[2] = env.version
       /\ \A v \in Versions \ {env.version} :
            BaseCacheKey(userConfig.runtimeCacheStorage, v) # runtimeConfig.baseCacheKey

C6_Witness ==
  /\ spc = "modulesDone"
  /\ userConfig.runtimeCacheStorage = [t |-> "object", driver |-> "redis"]
  /\ env.version = "3.1.0"
  /\ runtimeConfig.baseCacheKey = Str(<<"/nuxt-og-image@", "3.1.0">>)

HasLocalPath(f) == ~IsString(f) /\ Truthy(f.path)

\* the fonts the claim says are dropped
DroppedAsClaimed(f) == env.preset = "stackblitz" /\ ~HasLocalPath(f)

KeptAsClaimed(f) == ~DroppedAsClaimed(f)

\* C7: setup drops a configured font, with a warning, if and only if the
\* preset is stackblitz and the font has no local path.
C7_DroppedIffNoLocalPathOnStackblitz ==
  SetupRan /\ userConfig.fonts # <<>> =>
    /\ fontWarnings = SelectSeq(userConfig.fonts, DroppedAsClaimed)
    /\ Len(config.fonts) = Len(SelectSeq(userConfig.fonts, KeptAsClaimed))

\* C8: after setup the font list is never empty.
C8_FontsNeverEmpty ==
  /\ SetupRan => config.fonts # <<>>
  /\ spc = "modulesDone" => runtimeConfig.fonts # <<>>

\* C9: with no font configured, the published fonts are Inter 400 and Inter 700.
C9_DefaultFontsInjected ==
  spc = "modulesDone" /\ userConfig.fonts = <<>> =>
    /\ Len(runtimeConfig.fonts) = 2
    /\ runtimeConfig.fonts[1].name = Str(Inter)
    /\ runtimeConfig.fonts[1].weight = Str(<<"4", "0", "0">>)
    /\ runtimeConfig.fonts[2].name = Str(Inter)
    /\ runtimeConfig.fonts[2].weight = Str(<<"7", "0", "0">>)

\* s is Name:weight with the colon at position i
ShorthandAt(s, i) == s[i] = Colon /\ \A j \in 1..Len(s) : s[j] = Colon => j = i

\* module.ts on a target with remote fonts, the modules:done hook has run
RemoteFontsPublished ==
  /\ spc = "modulesDone"
  /\ env.variant = "module.ts"
  /\ env.preset # "stackblitz"
  /\ userConfig.fonts # <<>>

\* C10 as claimed: on a target with remote fonts, each shorthand Name:weight
\* is published as a descriptor with that name, that weight and a
\* remote-fetch key, and each record is published as it was configured.
C10_ShorthandGetsFetchKey ==
  RemoteFontsPublished =>
    /\ Len(runtimeConfig.fonts) = Len(userConfig.fonts)
    /\ \A n \in 1..Len(userConfig.fonts) :
         LET f == userConfig.fonts[n]
             out == runtimeConfig.fonts[n]
         IN IF IsString(f)
              THEN \A i \in 1..Len(f.v) :
                     ShorthandAt(f.v, i) =>
                       /\ out.name = Str(SubSeq(f.v, 1, i - 1))
                       /\ out.weight = Str(SubSeq(f.v, i + 1, Len(f.v)))
                       /\ Truthy(out.key)
              ELSE out = f

\* C10 as amended: on a target with remote fonts, each shorthand Name:weight
\* is published as a descriptor with that name and that weight and with
\* neither a path nor a key, and each record is published as it was configured.
C10_ShorthandNormalised ==
  RemoteFontsPublished =>
    /\ Len(runtimeConfig.fonts) = Len(userConfig.fonts)
    /\ \A n \in 1..Len(userConfig.fonts) :
         LET f == userConfig.fonts[n]
             out == runtimeConfig.fonts[n]
         IN IF IsString(f)
              THEN \A i \in 1..Len(f.v) :
                     ShorthandAt(f.v, i) =>
                       /\ out.name = Str(SubSeq(f.v, 1, i - 1))
                       /\ out.weight = Str(SubSeq(f.v, i + 1, Len(f.v)))
                       /\ out.path = Undefined
                       /\ out.key = Undefined
              ELSE out = f

\* a shorthand and a record were configured and are published
C10_Witness ==
  /\ RemoteFontsPublished
  /\ Len(userConfig.fonts) = 2
  /\ userConfig.fonts[1] = Str(Lato \o <<Colon, "7", "0", "0">>)
  /\ ~IsString(userConfig.fonts[2])
  /\ runtimeConfig.fonts[1].name = Str(Lato)
  /\ runtimeConfig.fonts[2] = userConfig.fonts[2]

\* the call found the instance cached by an earlier call
Warm(c) == pc[c] # "idle" /\ ~cold[c]

\* C19: no call of useResvg or useSatori has returned while the engine's
\* WASM initialization has not resolved, whether the call imported the
\* binding itself or found it cached.
C19_ReturnsOnlyAfterWasmInit ==
  \A c \in Calls :
    pc[c] = "returned" /\ kindOf[c] \in WasmKinds =>
      /\ wasm[kindOf[c]] = "resolved"
      /\ ret[c] = instance[kindOf[c]]

\* a call that found the instance cached while the initialization was still
\* pending is waiting, and another such call has returned after it resolved
C19_Witness ==
  \E k \in WasmKinds : \E c1, c2 \in Calls :
    /\ c1 # c2
    /\ Warm(c1) /\ Warm(c2)
    /\ kindOf[c1] = k /\ kindOf[c2] = k
    /\ pc[c1] = "returned" /\ pc[c2] = "awaitWasm"
    /\ wasm[k] = "resolved"

\* the font was not skipped by setup
NotWarned(f) == \A i \in 1..Len(fontWarnings) : fontWarnings[i] # f

\* the configured fonts setup did not drop, in their input order
Retained == SelectSeq(userConfig.fonts, NotWarned)

\* the published descriptor `out` is the one of the configured font `f`
PublishedFrom(f, out) ==
  IF IsString(f)
    THEN /\ \A i \in 1..Len(f.v) :
              (f.v[i] = Colon /\ \A j \in 1..(i - 1) : f.v[j] # Colon) =>
                out.name = Str(SubSeq(f.v, 1, i - 1))
         /\ (\A i \in 1..Len(f.v) : f.v[i] # Colon) => out.name = Str(f.v)
    ELSE out = f

InOrder(ins, outs) ==
  /\ Len(outs) = Len(ins)
  /\ \A i \in 1..Len(ins) : PublishedFrom(ins[i], outs[i])

ModuleTsPublished == spc = "modulesDone" /\ env.variant = "module.ts"

\* C11 as claimed: the published fonts are the retained configured fonts in
\* their input order, as many as were not dropped, duplicates included.
C11_RetainedInOrder ==
  ModuleTsPublished => InOrder(Retained, runtimeConfig.fonts)

\* C11 as amended: when at least one font is configured, the published fonts
\* are the retained configured fonts in their input order, as many as were
\* not dropped, duplicates included; with no font configured the two default
\* fonts are published.
C11_RetainedInOrderUnlessEmpty ==
  ModuleTsPublished =>
    IF userConfig.fonts = <<>>
      THEN Len(runtimeConfig.fonts) = 2
      ELSE InOrder(Retained, runtimeConfig.fonts)

\* the same font was configured twice and is published twice
C11_Witness ==
  /\ ModuleTsPublished
  /\ Len(userConfig.fonts) = 2
  /\ userConfig.fonts[1] = userConfig.fonts[2]
  /\ Len(runtimeConfig.fonts) = 2
  /\ runtimeConfig.fonts[1] = runtimeConfig.fonts[2]

\* the font routes of the fonts, in order
RoutesOf(fonts) ==
  [i \in 1..Len(fonts) |-> <<"/__og-image__/font/", fonts[i].name, "/", fonts[i].weight, ".ttf">>]

NoLocalPath(f) == ~Truthy(f.path)

NoSource(f) == ~Truthy(f.path) /\ ~Truthy(f.key)

NoSourceInVariant(f) == IF env.variant = "module.ts" THEN NoSource(f) ELSE NoLocalPath(f)

C13_UserCompatibilityKept ==
  SetupRan /\ env.variant = "module.ts" =>
    \A e \in DOMAIN userConfig.compatibility :
      config.compatibility[e] = userConfig.compatibility[e]

OneSource(f) == ~(Truthy(f.path) /\ Truthy(f.key))

\* C17 as claimed: no published font has both a path and a key.
C17_AtMostOneSource ==
  ModuleTsPublished =>
    \A i \in 1..Len(runtimeConfig.fonts) : OneSource(runtimeConfig.fonts[i])

\* C17 as amended: no published font has both a path and a key, unless it
\* was configured with both; setup adds no source to a font that has one.
C17_AtMostOneSourceUnlessConfigured ==
  ModuleTsPublished =>
    \A i \in 1..Len(runtimeConfig.fonts) :
      \/ OneSource(runtimeConfig.fonts[i])
      \/ \E n \in 1..Len(userConfig.fonts) :
           /\ userConfig.fonts[n] = runtimeConfig.fonts[i]
           /\ ~OneSource(userConfig.fonts[n])

\* on stackblitz the Inter shorthand is published with the key of the
\* bundled font and no path
C17_Witness ==
  /\ ModuleTsPublished
  /\ env.preset = "stackblitz"
  /\ Len(userConfig.fonts) = 2
  /\ IsString(userConfig.fonts[1])
  /\ ~IsString(userConfig.fonts[2]) /\ Truthy(userConfig.fonts[2].path) /\ ~Truthy(userConfig.fonts[2].key)
  /\ Len(runtimeConfig.fonts) = 2
  /\ Truthy(runtimeConfig.fonts[1].key) /\ ~Truthy(runtimeConfig.fonts[1].path)

ChromiumAfterSetup(phase) ==
  /\ <<phase, "chromium">> \in DOMAIN config.compatibility
  /\ config.compatibility[<<phase, "chromium">>]

ChromiumOffAfterSetup(phase) ==
  /\ <<phase, "chromium">> \in DOMAIN config.compatibility
  /\ ~config.compatibility[<<phase, "chromium">>]

NoBrowserFound == ~env.hasChromeLocally /\ ~env.hasPlaywrightDependency

\* C18 as claimed: with neither Chrome nor playwright, chromium is false in
\* every phase after setup; and runtime chromium is true only without a
\* local Chrome, with playwright and with a target that supports chromium.
C18_ChromiumByProbes ==
  SetupRan /\ env.variant = "module.ts" =>
    /\ NoBrowserFound => \A ph \in Phases : ChromiumOffAfterSetup(ph)
    /\ ChromiumAfterSetup("runtime") =>
         /\ ~env.hasChromeLocally
         /\ env.hasPlaywrightDependency
         /\ env.targetCompatibility.chromium

UserSetRuntimeChromium ==
  /\ <<"runtime", "chromium">> \in DOMAIN userConfig.compatibility
  /\ userConfig.compatibility[<<"runtime", "chromium">>]

\* C18 as amended: with neither Chrome nor playwright, chromium is false in
\* every phase after setup; and runtime chromium is true only without a
\* local Chrome, with playwright, and with a target that supports chromium
\* or with compatibility.runtime.chromium set to true by the user.
C18_ChromiumByProbesOrUser ==
  SetupRan /\ env.variant = "module.ts" =>
    /\ NoBrowserFound => \A ph \in Phases : ChromiumOffAfterSetup(ph)
    /\ ChromiumAfterSetup("runtime") =>
         /\ ~env.hasChromeLocally
         /\ env.hasPlaywrightDependency
         /\ env.targetCompatibility.chromium \/ UserSetRuntimeChromium

\* no browser is found although the user set runtime chromium to true on a
\* target that supports it: chromium is off in every phase
C18_Witness ==
  /\ spc = "setupDone"
  /\ env.variant = "module.ts"
  /\ NoBrowserFound
  /\ env.targetCompatibility.chromium
  /\ UserSetRuntimeChromium
  /\ \A ph \in Phases : ChromiumOffAfterSetup(ph)

DebugRoute == "/__og-image__/debug.json"

\* C14 as claimed: the debug.json route is registered only when the debug
\* option is set, in dev mode as well as in a build.
C14_DebugRouteOnlyWithDebug ==
  env.variant = "module.ts" =>
    (DebugRoute \in serverHandlers => userConfig.debug)

\* C14 as amended: setup registers the debug.json route exactly when the
\* debug option is set or nuxt runs in dev mode.
C14_DebugRouteWithDebugOrDev ==
  env.variant = "module.ts" =>
    /\ DebugRoute \in serverHandlers => userConfig.debug \/ env.mode = "dev"
    /\ SetupRan => (DebugRoute \in serverHandlers <=> userConfig.debug \/ env.mode = "dev")

\* debug is off in a build and in dev mode: only dev mode has the route
C14_Witness ==
  /\ SetupRan
  /\ env.variant = "module.ts"
  /\ ~userConfig.debug
  /\ env.mode = "dev"
  /\ DebugRoute \in serverHandlers

SwitchedOff == ~userConfig.enabled \/ ~env.ssr

\* C15: when the module or SSR is disabled, setup registers nothing and
\* writes nothing: no server handler, plugin, import, component or hook, no
\* change of the configuration, no runtime configuration, and no hook of
\* the module ever runs.
C15_DisabledSetupLeavesNoTrace ==
  SwitchedOff =>
    /\ spc \in {"start", "skipped"}
    /\ serverHandlers = {}
    /\ registered = {}
    /\ config = userConfig
    /\ baseCacheKey = Undefined
    /\ ensured = {}
    /\ prerenderRoutes = <<>>
    /\ runtimeConfig = NotPublished
    /\ ogImageComponents = <<>>

\* the spa fixture: enabled, debug on, SSR off; setup has returned
C15_Witness ==
  /\ spc = "skipped"
  /\ userConfig.enabled
  /\ userConfig.debug
  /\ ~env.ssr
  /\ logs # {}

\* the components of the latest invocation that belong in the registry
InDirectoryOrTemplate(c) ==
  \/ \E d \in 1..Len(config.componentDirs) :
       \/ StartsWith(c.pascalName, config.componentDirs[d])
       \/ StartsWith(c.kebabName, config.componentDirs[d])
       \/ Includes(c.shortPath, <<Slash>> \o config.componentDirs[d] \o <<Slash>>)
  \/ Includes(c.filePath, TemplatesDir)

EntriesOf(c) == {i \in 1..Len(ogImageComponents) : ogImageComponents[i].pascalName = c.pascalName}

RegistryCurrent ==
  /\ \A n \in 1..Len(scanned) :
       IF InDirectoryOrTemplate(scanned[n]) /\ files[scanned[n].filePath].exists
         THEN /\ Cardinality(EntriesOf(scanned[n])) = 1
              /\ \A i \in EntriesOf(scanned[n]) :
                   ogImageComponents[i].hash = Hash(files[scanned[n].filePath].content)
         ELSE EntriesOf(scanned[n]) = {}
  /\ \A i \in 1..Len(ogImageComponents) :
       \E n \in 1..Len(scanned) : ogImageComponents[i].pascalName = scanned[n].pascalName

\* C16: whenever the components:extend hook has run, the registry holds one
\* entry for each component of that invocation that is in a component
\* directory or a template of the module and whose file exists, with the
\* hash of the file's content, and no other entry.
C16_RegistryOfLatestInvocation ==
  [][extendCount' # extendCount => RegistryCurrent']_vars

\* a second invocation, after the file of a template was edited and another
\* was deleted: the registry holds the one template with its new hash
C16_Witness ==
  /\ extendCount = 2
  /\ Len(scanned) >= 2
  /\ Len(ogImageComponents) = 1
  /\ ogImageComponents[1].hash = Hash(WithCredits)
  /\ \E n \in 1..Len(scanned) :
       /\ scanned[n].pascalName # ogImageComponents[1].pascalName
       /\ InDirectoryOrTemplate(scanned[n])
       /\ ~files[scanned[n].filePath].exists

====
